---- MODULE Spec2Model ----
(***************************************************************************)
(* The taxonomy store of SikaAntler/TaxonomyDatabase: class Taxonomy of    *)
(* src/taxonomy/taxonomy.py and of src/TaxonomyDatabase/taxonomy.py, the   *)
(* SQL it builds with src/TaxonomyDatabase/commands.py, and the behaviour  *)
(* of the SQLite connection that SQL runs on (primary keys, foreign keys,  *)
(* triggers, and the implicit transactions of Python's sqlite3).           *)
(***************************************************************************)
EXTENDS Integers, Sequences, FiniteSets, TLC

(***************************************************************************)
(* Bounds of the exploration.                                              *)
(***************************************************************************)
\* Calls that change at least one row, per explored history.
MaxMutations == 1

\* The names records are called by, at every level alike, and the names a
\* rename may give: one more, that no record of the populated database has.
Names == {"a", "b"}
NewNames == Names \cup {"c"}
\* The scientific names an update may set; the populated database has others.
Scientifics == {"x"}

(***************************************************************************)
(* Python values.                                                          *)
(***************************************************************************)
\* Python's None, as an argument (a parent) and as a return value.
None == "<None>"
\* What fetchone() gives when no row is left: None in place of a tuple.
NoRow == <<>>
\* str.format of a value inside an f-string: None prints as the text None.
format(v) == IF v = None THEN "None" ELSE v
\* seq[i] of Python: indices from 0, negative ones count from the end.
PyItem(seq, i) == IF i < 0 THEN seq[Len(seq) + i + 1] ELSE seq[i + 1]

\* The exceptions the calls raise.
NoError == "none"
ValueError == "ValueError"
TypeError == "TypeError"
SyntaxError == "OperationalError: syntax error"
NoTransaction == "OperationalError: no transaction is active"
ColumnCount == "OperationalError: wrong number of values"
UniqueFailed == "IntegrityError: UNIQUE constraint failed"
ForeignKeyFailed == "IntegrityError: FOREIGN KEY constraint failed"

(***************************************************************************)
(* The two copies of the class.                                            *)
(***************************************************************************)
Packages == {"taxonomy", "TaxonomyDatabase"}

\* self._taxa with order and family exchanged
_taxa_misordered ==
    <<"phylum", "class", "family", "order", "genus", "species">>
\* self._taxa
_taxa == <<"phylum", "class", "order", "family", "genus", "species">>
Taxa == {_taxa[i] : i \in 1..Len(_taxa)}
\* self._taxa.index(taxon)
index(taxon) == (CHOOSE i \in 1..Len(_taxa) : _taxa[i] = taxon) - 1

(***************************************************************************)
(* Rows.  A row is the tuple a select * gives: (chinese, scientific,       *)
(* description) in phylum, and with parent as a fourth column elsewhere.   *)
(***************************************************************************)
chinese(row) == row[1]
scientific(row) == row[2]
description(row) == row[3]
parent(row) == row[4]

\* CREATE_TABLE_PHYLUM: the columns of table phylum, chinese the primary key.
CREATE_TABLE_PHYLUM ==
    [name |-> "phylum", columns |-> <<"chinese", "scientific", "description">>,
     primary_key |-> "chinese"]
\* commands.create_table_class_to_species without "primary key (chinese)"
create_table_class_to_species_no_key(taxon, parent_taxon) ==
    [name |-> taxon,
     columns |-> <<"chinese", "scientific", "description", "parent">>,
     primary_key |-> "",
     foreign_key |-> [column |-> "parent", references |-> parent_taxon]]
\* commands.create_table_class_to_species
create_table_class_to_species(taxon, parent_taxon) ==
    [name |-> taxon,
     columns |-> <<"chinese", "scientific", "description", "parent">>,
     primary_key |-> "chinese",
     foreign_key |-> [column |-> "parent", references |-> parent_taxon]]
\* commands.create_trigger_update_chinese written "after delete"
create_trigger_update_chinese_after_delete(taxon, child_taxon) ==
    [name |-> "update_chinese", event |-> "delete", on |-> taxon,
     child |-> child_taxon]
\* commands.create_trigger_update_chinese
create_trigger_update_chinese(taxon, child_taxon) ==
    [name |-> "update_chinese", event |-> "update", on |-> taxon,
     child |-> child_taxon]
\* commands.create_trigger_delete_taxon
create_trigger_delete_taxon(taxon, child_taxon) ==
    [name |-> "delete", event |-> "delete", on |-> taxon, child |-> child_taxon]

\* Taxonomy._create_tables: the five tables with a foreign key.
_create_tables ==
    {create_table_class_to_species(PyItem(_taxa, i), PyItem(_taxa, i - 1)) :
        i \in 1..5}
\* Taxonomy._create_triggers with the rename triggers from class on: a rename
\* of a phylum reaches no class
_create_triggers_rename_from_class ==
    {create_trigger_update_chinese(PyItem(_taxa, i), PyItem(_taxa, i + 1)) :
        i \in 1..4}
    \cup {create_trigger_delete_taxon(PyItem(_taxa, i), PyItem(_taxa, i + 1)) :
        i \in 0..4}
\* Taxonomy._create_triggers with range(4): no triggers on genus
_create_triggers_range4 ==
    {create_trigger_update_chinese(PyItem(_taxa, i), PyItem(_taxa, i + 1)) :
        i \in 0..3}
    \cup {create_trigger_delete_taxon(PyItem(_taxa, i), PyItem(_taxa, i + 1)) :
        i \in 0..3}
\* Taxonomy._create_triggers: two triggers on each of the five parent tables.
_create_triggers ==
    {create_trigger_update_chinese(PyItem(_taxa, i), PyItem(_taxa, i + 1)) :
        i \in 0..4}
    \cup {create_trigger_delete_taxon(PyItem(_taxa, i), PyItem(_taxa, i + 1)) :
        i \in 0..4}

\* What sqlite_master lists once _create_tables and _create_triggers have
\* run: the tables and the triggers, in the order of the execute calls that
\* made them.  (A trigger's full name has its table's name in it.)
sqlite_master ==
    <<[type |-> "table", name |-> CREATE_TABLE_PHYLUM.name,
       tbl_name |-> CREATE_TABLE_PHYLUM.name]>>
    \o [i \in 1..5 |->
          LET c == create_table_class_to_species(PyItem(_taxa, i),
                                                 PyItem(_taxa, i - 1))
          IN  [type |-> "table", name |-> c.name, tbl_name |-> c.name]]
    \o [k \in 1..10 |->
          LET i == (k - 1) \div 2
              taxon == PyItem(_taxa, i)
              child_taxon == PyItem(_taxa, i + 1)
              g == IF k % 2 = 1
                   THEN create_trigger_update_chinese(taxon, child_taxon)
                   ELSE create_trigger_delete_taxon(taxon, child_taxon)
          IN  [type |-> "trigger", name |-> g.name, tbl_name |-> g.on]]

\* The table as it was created.
table(taxon) ==
    IF taxon = CREATE_TABLE_PHYLUM.name THEN CREATE_TABLE_PHYLUM
    ELSE CHOOSE c \in _create_tables : c.name = taxon
\* The number of columns of a table, and the place of one of them in a row.
Width(taxon) == Len(table(taxon).columns)
column(taxon, name) ==
    CHOOSE k \in 1..Width(taxon) : table(taxon).columns[k] = name

\* INITIALIZE: pragma foreign_keys = 1, run on every connection.
INITIALIZE == [pragma |-> "foreign_keys", value |-> 1]
foreign_keys == INITIALIZE.value = 1

EmptyTables == [t \in Taxa |-> {}]

(***************************************************************************)
(* The statements commands.py builds.                                      *)
(***************************************************************************)
\* commands.create_data: "values (*{values})" prints an asterisk and then the
\* Python list itself, brackets and quotes included, where the SQL needs the
\* values separated by commas.
commands_create_data(taxon, values) ==
    [verb |-> "insert", table |-> taxon,
     exprs |-> <<[token |-> "*"], [token |-> "[identifier]", text |-> values]>>]
\* commands.delete_data
commands_delete_data(taxon, name) ==
    [verb |-> "delete", table |-> taxon, where_chinese |-> name]
\* commands.update_chinese with "set scientific = new_chinese"
commands_update_chinese_sets_scientific(taxon, name, new_chinese) ==
    [verb |-> "update", table |-> taxon, set |-> "scientific",
     value |-> new_chinese, where_chinese |-> name]
\* commands.update_chinese
commands_update_chinese(taxon, name, new_chinese) ==
    [verb |-> "update", table |-> taxon, set |-> "chinese", value |-> new_chinese,
     where_chinese |-> name]
\* commands.update_scientific with "set chinese = new_scientific"
commands_update_scientific_sets_chinese(taxon, name, new_scientific) ==
    [verb |-> "update", table |-> taxon, set |-> "chinese",
     value |-> new_scientific, where_chinese |-> name]
\* commands.update_scientific
commands_update_scientific(taxon, name, new_scientific) ==
    [verb |-> "update", table |-> taxon, set |-> "scientific",
     value |-> new_scientific,
     where_chinese |-> name]
\* commands.COMMIT and commands.ROLLBACK
COMMIT == [verb |-> "commit"]
ROLLBACK == [verb |-> "rollback"]

(***************************************************************************)
(* What the connection does with a statement.                              *)
(***************************************************************************)
\* The rows of the child tables whose parent names no row of the table their
\* foreign key references.
fk_violations(t) ==
    UNION {{<<c.name, r>> : r \in {x \in t[c.name] :
                \A p \in t[c.foreign_key.references] : chinese(p) # parent(x)}} :
           c \in _create_tables}

\* A delete of rows of a table and the delete triggers it fires, the triggers
\* written without their where clause: delete from child.
RECURSIVE delete_rows_all_children(_, _, _)
delete_rows_all_children(t, taxon, victims) ==
    LET t1 == [t EXCEPT ![taxon] = @ \ victims]
        fired == {g \in _create_triggers : g.event = "delete" /\ g.on = taxon}
    IN  IF victims = {} \/ fired = {} THEN t1
        ELSE LET g == CHOOSE x \in fired : TRUE
             IN  delete_rows_all_children(t1, g.child, t1[g.child])

\* A delete of rows of a table, and the delete triggers it fires, level by
\* level: delete from child where parent = old.chinese.
RECURSIVE delete_rows(_, _, _)
delete_rows(t, taxon, victims) ==
    LET t1 == [t EXCEPT ![taxon] = @ \ victims]
        fired == {g \in _create_triggers : g.event = "delete" /\ g.on = taxon}
    IN  IF victims = {} \/ fired = {} THEN t1
        ELSE LET g == CHOOSE x \in fired : TRUE
                 gone == {r \in t1[g.child] :
                             \E v \in victims : parent(r) = chinese(v)}
             IN  delete_rows(t1, g.child, gone)

\* An update of rows of a table (changes: pairs <<old row, new row>>), and the
\* update triggers it fires, level by level:
\* update child set parent = new.chinese where parent = old.chinese.
RECURSIVE update_rows(_, _, _)
update_rows(t, taxon, changes) ==
    LET t1 == [t EXCEPT ![taxon] =
                  (@ \ {c[1] : c \in changes}) \cup {c[2] : c \in changes}]
        fired == {g \in _create_triggers : g.event = "update" /\ g.on = taxon}
    IN  IF changes = {} \/ fired = {} THEN t1
        ELSE LET g == CHOOSE x \in fired : TRUE
                 hit == {x \in t1[g.child] \X changes :
                            parent(x[1]) = chinese(x[2][1])}
                 next == {<<x[1], [x[1] EXCEPT ![4] = chinese(x[2][2])]>> :
                            x \in hit}
             IN  update_rows(t1, g.child, next)

\* An immediate foreign key fails the statement when it ends with more
\* violations than it began with; a failed statement changes nothing.
statement_end(before, after) ==
    IF foreign_keys
       /\ Cardinality(fk_violations(after)) > Cardinality(fk_violations(before))
    THEN [tables |-> before, raised |-> ForeignKeyFailed]
    ELSE [tables |-> after, raised |-> NoError]

\* delete from taxon, the where clause left out
run_delete_all(t, stmt) ==
    statement_end(t, delete_rows(t, stmt.table, t[stmt.table]))
\* delete from taxon where chinese = name
run_delete(t, stmt) ==
    LET victims == {r \in t[stmt.table] : chinese(r) = stmt.where_chinese}
    IN  statement_end(t, delete_rows(t, stmt.table, victims))

\* update taxon set column = value where chinese = name
run_update(t, stmt) ==
    LET olds == {r \in t[stmt.table] : chinese(r) = stmt.where_chinese}
        k == column(stmt.table, stmt.set)
        changes == {<<r, [r EXCEPT ![k] = stmt.value]>> : r \in olds}
        kept == t[stmt.table] \ olds
        key == column(stmt.table, table(stmt.table).primary_key)
        clash == /\ stmt.set = table(stmt.table).primary_key
                 /\ \E c \in changes : \E x \in kept : x[key] = c[2][key]
    IN  IF clash
        THEN [tables |-> t, raised |-> UniqueFailed]
        ELSE statement_end(t, update_rows(t, stmt.table, changes))

\* insert into taxon values (exprs): every expression has to be a literal, and
\* there have to be as many as the table has columns.
run_insert(t, stmt) ==
    LET row == [i \in 1..Len(stmt.exprs) |-> stmt.exprs[i].text]
    IN  IF Len(stmt.exprs) # Width(stmt.table)
        THEN [tables |-> t, raised |-> ColumnCount]
        ELSE IF \E x \in t[stmt.table] :
                    LET key == column(stmt.table, table(stmt.table).primary_key)
                    IN  x[key] = row[key]
        THEN [tables |-> t, raised |-> UniqueFailed]
        ELSE statement_end(t, [t EXCEPT ![stmt.table] = @ \cup {row}])

\* Whether the statement parses: an insert's values are literals.
parses(stmt) ==
    stmt.verb = "insert" =>
        \A i \in 1..Len(stmt.exprs) : stmt.exprs[i].token = "literal"

run(t, stmt) ==
    CASE stmt.verb = "delete" -> run_delete(t, stmt)
      [] stmt.verb = "update" -> run_update(t, stmt)
      [] stmt.verb = "insert" -> run_insert(t, stmt)

(***************************************************************************)
(* The queries.  A select gives its rows in storage order, which no caller *)
(* fixes: the rows are a set here, and fetchone() may give any of them.    *)
(***************************************************************************)
\* commands.retrieve_data_by_chinese: where chinese = name
commands_retrieve_data_by_chinese(t, taxon, name) ==
    {r \in t[taxon] : chinese(r) = name}
\* commands.retrieve_data_by_parent with "where chinese = name"
commands_retrieve_data_by_parent_chinese(t, taxon, parent_chinese) ==
    {r \in t[taxon] : chinese(r) = format(parent_chinese)}
\* commands.retrieve_data_by_parent: where parent = name
commands_retrieve_data_by_parent(t, taxon, parent_chinese) ==
    {r \in t[taxon] : parent(r) = format(parent_chinese)}
\* commands.retrieve_data_by_taxon
commands_retrieve_data_by_taxon(t, taxon) == t[taxon]
\* commands.retrieve_data_by_child:
\* where chinese = (select parent from child_taxon where chinese = name).
\* A child table without a column parent leaves the name to the outer table:
\* the subquery then gives each outer row its own parent, once per child row.
commands_retrieve_data_by_child(t, taxon, child_taxon, child_chinese) ==
    LET named == {c \in t[child_taxon] : chinese(c) = child_chinese}
    IN  IF \E k \in 1..Width(child_taxon) :
               table(child_taxon).columns[k] = "parent"
        THEN {r \in t[taxon] : \E c \in named : chinese(r) = parent(c)}
        ELSE {r \in t[taxon] : named # {} /\ chinese(r) = parent(r)}

\* Taxonomy._fetchone: a row, or None when there is none.
_fetchone(rows) == IF rows = {} THEN {NoRow} ELSE rows
\* Taxonomy._fetchall
_fetchall(rows) == rows

\* Taxonomy.retrieve_data_by_chinese
data_by_chinese(t, taxon, name) ==
    _fetchone(commands_retrieve_data_by_chinese(t, taxon, name))
\* Taxonomy.retrieve_data_by_child
data_by_child(t, child_taxon, child_chinese) ==
    LET idx == index(child_taxon)
        taxon == PyItem(_taxa, idx - 1)
    IN  _fetchone(commands_retrieve_data_by_child(t, taxon, child_taxon,
                                                  child_chinese))
\* Taxonomy.retrieve_data_by_taxon
data_by_taxon(t, taxon) == _fetchall(commands_retrieve_data_by_taxon(t, taxon))
\* Taxonomy.retrieve_data_by_parent
data_by_parent(t, taxon, parent_chinese) ==
    IF taxon = "phylum" THEN data_by_taxon(t, "phylum")
    ELSE _fetchall(commands_retrieve_data_by_parent(t, taxon, parent_chinese))

\* item[:2], and the TypeError of subscripting None
slice2(item) == <<item[1], item[2]>>

\* The while loop of retrieve_hierarchical_parents_by_child with
\* parents.append(parent) for parents.insert(0, parent).  Package taxonomy
\* subscripts the parent whatever it is; TaxonomyDatabase first returns []
\* when it is None.
RECURSIVE walk_appends(_, _, _, _, _, _)
walk_appends(pkg, t, idx, child_taxon, child_chinese, parents) ==
    IF idx = 0 THEN [raised |-> NoError, value |-> parents]
    ELSE LET found == CHOOSE r \in data_by_child(t, child_taxon, child_chinese) :
                         TRUE
         IN  IF found = NoRow
             THEN IF pkg = "TaxonomyDatabase"
                  THEN [raised |-> NoError, value |-> <<>>]
                  ELSE [raised |-> TypeError, value |-> <<>>]
             ELSE walk_appends(pkg, t, idx - 1, PyItem(_taxa, idx - 1),
                               chinese(found), parents \o <<found>>)

\* The while loop of retrieve_hierarchical_parents_by_child, as the code has
\* it: parents.insert(0, parent).
RECURSIVE walk(_, _, _, _, _, _)
walk(pkg, t, idx, child_taxon, child_chinese, parents) ==
    IF idx = 0 THEN [raised |-> NoError, value |-> parents]
    ELSE LET found == CHOOSE r \in data_by_child(t, child_taxon, child_chinese) :
                         TRUE
         IN  IF found = NoRow
             THEN IF pkg = "TaxonomyDatabase"
                  THEN [raised |-> NoError, value |-> <<>>]
                  ELSE [raised |-> TypeError, value |-> <<>>]
             ELSE walk(pkg, t, idx - 1, PyItem(_taxa, idx - 1), chinese(found),
                       <<found>> \o parents)

\* The names_only branch.  Package taxonomy appends item[:2] of every item;
\* TaxonomyDatabase writes names.append[item[:2]], which subscripts the method
\* append and raises at the first item.
names_of(pkg, parents) ==
    IF parents = <<>> THEN [raised |-> NoError, value |-> <<>>]
    ELSE IF pkg = "TaxonomyDatabase" THEN [raised |-> TypeError, value |-> <<>>]
    ELSE IF \E i \in 1..Len(parents) : parents[i] = NoRow
    THEN [raised |-> TypeError, value |-> <<>>]
    ELSE [raised |-> NoError,
          value |-> [i \in 1..Len(parents) |-> slice2(parents[i])]]

\* Taxonomy.retrieve_hierarchical_parents_by_child
hierarchical_parents_by_child(pkg, t, child_taxon, child_chinese, return_child, names_only) ==
    LET first == IF return_child
                 THEN <<CHOOSE r \in data_by_chinese(t, child_taxon,
                                                     child_chinese) : TRUE>>
                 ELSE <<>>
        walked == walk(pkg, t, index(child_taxon), child_taxon, child_chinese,
                       first)
    IN  IF walked.raised # NoError \/ ~names_only THEN walked
        ELSE names_of(pkg, walked.value)

(***************************************************************************)
(* The state: the database file at the location, and the one Taxonomy      *)
(* object the caller holds on it.                                           *)
(***************************************************************************)
VARIABLES
    package,         \* which copy of the class the caller imported
    file,            \* the database file: whether it exists, and what is committed
    connected,       \* whether the caller holds an open Taxonomy object
    tables,          \* the rows the connection sees, uncommitted ones included
    in_transaction,  \* self._connect.in_transaction
    last_call,       \* the method called last
    raised,          \* the exception it raised, or NoError
    returned,        \* the value it returned
    mutations        \* calls so far that changed a row

vars == <<package, file, connected, tables, in_transaction, last_call,
          raised, returned, mutations>>

\* The object as the methods read and write it.
Self ==
    [tables |-> tables, file |-> file, in_transaction |-> in_transaction,
     raised |-> NoError]

\* The location without a file, and the file __init__ creates there: the six
\* tables of _create_tables and the triggers of _create_triggers, no rows.
NoFile == [exists |-> FALSE, master |-> <<>>, tables |-> EmptyTables]
NewFile == [exists |-> TRUE, master |-> sqlite_master, tables |-> EmptyTables]

\* A database populated earlier.  Phylum a holds class b, that holds order a,
\* that holds families a and b; family a holds genus b, that holds species a
\* and b.  Phylum b holds class a, which holds nothing.
Phytoplankton ==
    [exists |-> TRUE, master |-> sqlite_master,
     tables |->
       [t \in Taxa |->
          CASE t = "phylum" -> {<<"a", "p", "">>, <<"b", "p", "">>}
            [] t = "class" -> {<<"b", "c", "", "a">>, <<"a", "c", "", "b">>}
            [] t = "order" -> {<<"a", "o", "", "b">>}
            [] t = "family" -> {<<"a", "f", "", "a">>, <<"b", "f", "", "a">>}
            [] t = "genus" -> {<<"b", "g", "", "a">>}
            [] t = "species" -> {<<"a", "s", "", "b">>, <<"b", "s", "", "b">>}]]

\* What may lie at the location when the caller first constructs a Taxonomy.
Locations == {NoFile, Phytoplankton}

(***************************************************************************)
(* Transactions.  Python's sqlite3 begins a transaction before an insert,  *)
(* update or delete that parses, when none is open; nothing but commit,    *)
(* rollback and close ends it.                                             *)
(***************************************************************************)
\* self._connect.commit(): nothing to do without an open transaction.
connect_commit(self) ==
    IF self.in_transaction
    THEN [self EXCEPT !.file.tables = self.tables, !.in_transaction = FALSE]
    ELSE self

\* self._connect.rollback() that commits
connect_rollback_commits(self) ==
    IF self.in_transaction
    THEN [self EXCEPT !.file.tables = self.tables, !.in_transaction = FALSE]
    ELSE self
\* self._connect.rollback(): nothing to do without an open transaction.
connect_rollback(self) ==
    IF self.in_transaction
    THEN [self EXCEPT !.tables = self.file.tables, !.in_transaction = FALSE]
    ELSE self

\* Taxonomy._execute that rolls the transaction back when the statement
\* raises
_execute_rolls_back(self, stmt) ==
    IF ~parses(stmt)
    THEN [connect_rollback(self) EXCEPT !.raised = SyntaxError]
    ELSE IF stmt.verb \in {"commit", "rollback"}
    THEN IF ~self.in_transaction
         THEN [self EXCEPT !.raised = NoTransaction]
         ELSE IF stmt.verb = "commit" THEN connect_commit(self)
         ELSE connect_rollback(self)
    ELSE LET r == run(self.tables, stmt)
         IN  IF r.raised # NoError
             THEN [connect_rollback(self) EXCEPT !.raised = r.raised]
             ELSE [self EXCEPT !.tables = r.tables, !.in_transaction = TRUE,
                               !.raised = r.raised]

\* Taxonomy._execute: self._cursor.execute(sql).
_execute(self, stmt) ==
    IF ~parses(stmt)
    THEN [self EXCEPT !.raised = SyntaxError]
    ELSE IF stmt.verb \in {"commit", "rollback"}
    THEN IF ~self.in_transaction
         THEN [self EXCEPT !.raised = NoTransaction]
         ELSE IF stmt.verb = "commit" THEN connect_commit(self)
         ELSE connect_rollback(self)
    ELSE LET r == run(self.tables, stmt)
         IN  [self EXCEPT !.tables = r.tables, !.in_transaction = TRUE,
                          !.raised = r.raised]

\* Taxonomy.commit, by package.
commit_by(pkg, self) ==
    IF pkg = "taxonomy" THEN connect_commit(self) ELSE _execute(self, COMMIT)

\* Taxonomy.rollback, by package.
rollback_by(pkg, self) ==
    IF pkg = "taxonomy" THEN connect_rollback(self) ELSE _execute(self, ROLLBACK)

\* The state after a method of an open object ended as `out`.
Ends(method, out, value) ==
    /\ last_call' = method
    /\ \E o \in {out} :
          LET changes == o.tables # tables /\ method \notin {"commit", "rollback"}
          IN  /\ changes => mutations < MaxMutations
              /\ tables' = o.tables
              /\ file' = o.file
              /\ in_transaction' = o.in_transaction
              /\ raised' = o.raised
              /\ mutations' = IF changes THEN mutations + 1 ELSE mutations
    /\ returned' = value
    /\ UNCHANGED <<package, connected>>

(***************************************************************************)
(* The methods.                                                            *)
(***************************************************************************)
\* Taxonomy.__init__
__init__ ==
    /\ ~connected
    /\ last_call' = "__init__"
    /\ LET _requires_init == ~file.exists
           opened == [tables |-> IF _requires_init THEN EmptyTables
                                 ELSE file.tables,
                      file |-> IF _requires_init THEN NewFile ELSE file,
                      in_transaction |-> FALSE, raised |-> NoError]
           out == IF _requires_init THEN commit_by(package, opened) ELSE opened
       IN  /\ file' = out.file
           /\ raised' = out.raised
           /\ connected' = (out.raised = NoError)
           /\ tables' = IF out.raised = NoError THEN out.tables ELSE EmptyTables
    /\ in_transaction' = FALSE
    /\ returned' = None
    /\ UNCHANGED <<package, mutations>>

\* Taxonomy.close: what was not committed is gone with the connection.
close ==
    /\ connected
    /\ last_call' = "close"
    /\ connected' = FALSE
    /\ tables' = EmptyTables
    /\ in_transaction' = FALSE
    /\ raised' = NoError
    /\ returned' = None
    /\ UNCHANGED <<package, file, mutations>>

\* Taxonomy.commit
commit ==
    /\ connected
    /\ Ends("commit", commit_by(package, Self), None)

\* Taxonomy.rollback
rollback ==
    /\ connected
    /\ Ends("rollback", rollback_by(package, Self), None)

\* Taxonomy.create_data
create_data(taxon, name, new_scientific, text, parent_name) ==
    /\ connected
    /\ LET idx == index(taxon)
           values == <<<<name, new_scientific, text>>>>
                     \o (IF idx # 0 THEN <<<<format(parent_name)>>>> ELSE <<>>)
       IN  IF idx = 0 /\ parent_name # None
           THEN Ends("create_data", [Self EXCEPT !.raised = ValueError], None)
           ELSE Ends("create_data",
                     _execute(Self, commands_create_data(taxon, values)), None)

\* Taxonomy.delete_data
delete_data(taxon, name) ==
    /\ connected
    /\ Ends("delete_data", _execute(Self, commands_delete_data(taxon, name)),
            None)

\* Taxonomy.update_chinese
update_chinese(taxon, name, new_chinese) ==
    /\ connected
    /\ Ends("update_chinese",
            _execute(Self, commands_update_chinese(taxon, name, new_chinese)),
            None)

\* Taxonomy.update_scientific
update_scientific(taxon, name, new_scientific) ==
    /\ connected
    /\ Ends("update_scientific",
            _execute(Self,
                     commands_update_scientific(taxon, name, new_scientific)),
            None)

\* The state after a query of an open object: a select begins no transaction.
Answers(method, error, value) ==
    /\ last_call' = method
    /\ raised' = error
    /\ returned' = value
    /\ UNCHANGED <<package, file, connected, tables, in_transaction, mutations>>

\* Taxonomy.retrieve_data_by_chinese
retrieve_data_by_chinese(taxon, name) ==
    /\ connected
    /\ \E r \in data_by_chinese(tables, taxon, name) :
          Answers("retrieve_data_by_chinese", NoError, r)

\* Taxonomy.retrieve_data_by_child
retrieve_data_by_child(child_taxon, child_chinese) ==
    /\ connected
    /\ \E r \in data_by_child(tables, child_taxon, child_chinese) :
          Answers("retrieve_data_by_child", NoError, r)

\* Taxonomy.retrieve_data_by_parent
retrieve_data_by_parent(taxon, parent_chinese) ==
    /\ connected
    /\ Answers("retrieve_data_by_parent", NoError,
               data_by_parent(tables, taxon, parent_chinese))

\* Taxonomy.retrieve_data_by_taxon
retrieve_data_by_taxon(taxon) ==
    /\ connected
    /\ Answers("retrieve_data_by_taxon", NoError, data_by_taxon(tables, taxon))

\* Taxonomy.retrieve_hierarchical_parents_by_child
retrieve_hierarchical_parents_by_child(child_taxon, child_chinese, return_child, names_only) ==
    /\ connected
    /\ LET out == hierarchical_parents_by_child(package, tables, child_taxon,
                       child_chinese, return_child, names_only)
       IN  Answers("retrieve_hierarchical_parents_by_child", out.raised,
                   out.value)

(***************************************************************************)
(* The specification: a caller that opens the store and calls its methods. *)
(***************************************************************************)
\* The parents a caller passes to create_data.
Parents == {None, "", "a"}

Init ==
    /\ package \in Packages
    /\ file \in Locations
    /\ connected = FALSE
    /\ tables = EmptyTables
    /\ in_transaction = FALSE
    /\ last_call = "none"
    /\ raised = NoError
    /\ returned = None
    /\ mutations = 0

Next ==
    \/ __init__
    \/ close
    \/ commit
    \/ rollback
    \/ \E t \in Taxa, n \in Names, p \in Parents :
          create_data(t, n, "x", "", p)
    \/ \E t \in Taxa, n \in Names : delete_data(t, n)
    \/ \E t \in Taxa, n \in Names, m \in NewNames : update_chinese(t, n, m)
    \/ \E t \in Taxa, n \in Names, s \in Scientifics :
          update_scientific(t, n, s)

Spec == Init /\ [][Next]_vars

(***************************************************************************)
(* The queries, asked of an open store: of the populated database as it    *)
(* is, after one delete or one rename, and of a new one.                   *)
(***************************************************************************)
RetrieveStores ==
    {Phytoplankton.tables, EmptyTables}
    \cup {run(Phytoplankton.tables, commands_delete_data(t, n)).tables :
             t \in Taxa, n \in Names}
    \cup {run(Phytoplankton.tables,
               commands_update_chinese(t, n[1], n[2])).tables :
             t \in Taxa, n \in Names \X NewNames}

InitRetrieve ==
    /\ package \in Packages
    /\ tables \in RetrieveStores
    /\ file = [Phytoplankton EXCEPT !.tables = tables]
    /\ connected = TRUE
    /\ in_transaction = FALSE
    /\ last_call = "__init__"
    /\ raised = NoError
    /\ returned = None
    /\ mutations = 0

NextRetrieve ==
    \/ \E t \in Taxa, n \in NewNames : retrieve_data_by_chinese(t, n)
    \/ \E t \in Taxa, n \in NewNames : retrieve_data_by_child(t, n)
    \/ \E t \in Taxa, p \in {None} \cup NewNames : retrieve_data_by_parent(t, p)
    \/ \E t \in Taxa : retrieve_data_by_taxon(t)
    \/ \E t \in Taxa, n \in NewNames, c \in BOOLEAN, o \in BOOLEAN :
          retrieve_hierarchical_parents_by_child(t, n, c, o)

SpecRetrieve == InitRetrieve /\ [][NextRetrieve]_vars

(***************************************************************************)
(* The claims.  They speak of the six levels of the specification, root    *)
(* first, and of records by level and name.                                *)
(***************************************************************************)
Levels == <<"phylum", "class", "order", "family", "genus", "species">>
NonRoot == {Levels[i] : i \in 2..6}
NonLeaf == {Levels[i] : i \in 1..5}
Depth(level) == CHOOSE i \in 1..6 : Levels[i] = level
Enclosing(level) == Levels[Depth(level) - 1]
Subordinate(level) == Levels[Depth(level) + 1]
Exists(t, level, name) == \E r \in t[level] : chinese(r) = name
ChildrenOf(t, level, name) ==
    {r \in t[Subordinate(level)] : parent(r) = name}

\* The records of level j >= Depth(level) whose ancestry passes through the
\* record called name at level.
RECURSIVE Lineage(_, _, _, _)
Lineage(t, level, name, j) ==
    IF j = Depth(level) THEN {r \in t[level] : chinese(r) = name}
    ELSE {r \in t[Levels[j]] :
            \E p \in Lineage(t, level, name, j - 1) : parent(r) = chinese(p)}

\* Every non-root record names as parent a record of the enclosing level.
ReferencesIntact(t) ==
    \A level \in NonRoot : \A r \in t[level] :
        Exists(t, Enclosing(level), parent(r))

\* C1: in every reachable state, whatever calls succeeded or failed, every
\* record at a non-root level has a parent that exists at the enclosing level,
\* in what the connection sees and in what is committed to the file.
C1_ReferentialIntegrity ==
    /\ ReferencesIntact(file.tables)
    /\ connected => ReferencesIntact(tables)

\* A delete has removed a record that had children, and non-root records are
\* left.
C1_Witness ==
    /\ connected /\ last_call = "delete_data"
    /\ \E level \in NonLeaf :
         \E r \in file.tables[level] \ tables[level] :
            ChildrenOf(file.tables, level, chinese(r)) # {}
    /\ \E level \in NonRoot : tables[level] # {}

\* C2: delete_data of an existing record removes it and every descendant at
\* every subordinate level, and raises nothing.
C2_DeleteRemovesLineage ==
    [][\A level \in Taxa : \A n \in Names :
          Exists(tables, level, n) /\ delete_data(level, n)
          => /\ raised' = NoError
             /\ \A j \in Depth(level)..6 :
                   tables'[Levels[j]] \cap Lineage(tables, level, n, j) = {}]_vars

\* A delete has removed a phylum whose lineage reached down to species, and
\* none of that lineage is left at any level.
C2_Witness ==
    /\ connected /\ last_call = "delete_data"
    /\ \E r \in file.tables["phylum"] \ tables["phylum"] :
         /\ \A j \in 1..6 : Lineage(file.tables, "phylum", chinese(r), j) # {}
         /\ \A j \in 1..6 :
               tables[Levels[j]]
                 \cap Lineage(file.tables, "phylum", chinese(r), j) = {}

\* C3: update_chinese of an existing record at a non-leaf level, to a name
\* unused at that level, leaves under the new name exactly the children that
\* were under the old name, and none under the old name.
C3_RenameMovesChildren ==
    [][\A level \in NonLeaf : \A old \in Names : \A new \in NewNames :
          /\ Exists(tables, level, old) /\ ~Exists(tables, level, new)
          /\ update_chinese(level, old, new)
          => /\ raised' = NoError
             /\ data_by_parent(tables', Subordinate(level), new)
                  = {[r EXCEPT ![4] = new] :
                        r \in data_by_parent(tables, Subordinate(level), old)}
             /\ data_by_parent(tables', Subordinate(level), old) = {}]_vars

\* A rename has moved the children of a record from its old name to its new.
C3_Witness ==
    /\ connected /\ last_call = "update_chinese"
    /\ \E level \in NonLeaf : \E old \in Names : \E new \in NewNames :
         /\ Exists(file.tables, level, old) /\ ~Exists(file.tables, level, new)
         /\ ~Exists(tables, level, old) /\ Exists(tables, level, new)
         /\ ChildrenOf(file.tables, level, old) # {}
         /\ ChildrenOf(tables, level, new)
              = {[r EXCEPT ![4] = new] : r \in ChildrenOf(file.tables, level, old)}

\* C4: create_data at a non-root level with a parent that does not exist at
\* the enclosing level fails with the referential-integrity error and inserts
\* nothing.
C4_CreateWithoutParentFails ==
    [][\A level \in NonRoot : \A n \in Names : \A p \in Parents :
          /\ create_data(level, n, "x", "", p)
          /\ ~Exists(tables, Enclosing(level), format(p))
          => raised' = ForeignKeyFailed /\ tables' = tables]_vars

\* C5: for an existing record, the ancestry chain with the leaf included
\* and names only has as many pairs as the leaf's level is deep, the pair of a
\* record of level i at place i, each the parent of the next, and the leaf's
\* own pair last.
C5_ChainWithLeafNamesOnly ==
    [][\A level \in Taxa : \A n \in NewNames :
          /\ Exists(tables, level, n)
          /\ retrieve_hierarchical_parents_by_child(level, n, TRUE, TRUE)
          => /\ raised' = NoError
             /\ Len(returned') = Depth(level)
             /\ \E leaf \in tables[level] :
                   /\ chinese(leaf) = n
                   /\ returned'[Depth(level)] = <<n, scientific(leaf)>>
             /\ \A i \in 1..Depth(level) :
                   \E r \in Lineage(tables, Levels[i], returned'[i][1],
                                    Depth(level)) :
                      /\ chinese(r) = n
                      /\ \E a \in tables[Levels[i]] :
                            returned'[i] = <<chinese(a), scientific(a)>>]_vars

\* C6: the ancestry chain of a name that no record of the level has is the
\* empty list, whatever the flags, and no error is raised.
C6_UnresolvedChainIsEmpty ==
    [][\A level \in Taxa : \A n \in NewNames :
       \A c \in BOOLEAN : \A o \in BOOLEAN :
          /\ ~Exists(tables, level, n)
          /\ retrieve_hierarchical_parents_by_child(level, n, c, o)
          => raised' = NoError /\ returned' = <<>>]_vars

\* The methods that change records.
Mutators ==
    {"create_data", "delete_data", "update_chinese", "update_scientific"}

\* C7: no create, delete, rename or update commits (the committed contents
\* change at commit alone, and at the first initialisation), a connection
\* without a pending change sees the committed contents, and rollback brings
\* all six levels back to the committed contents.
C7_RollbackRestoresCommitted ==
    [][/\ last_call' \in Mutators => file' = file
       /\ file'.tables # file.tables => last_call' = "commit"
       /\ connected' /\ ~in_transaction' => tables' = file'.tables
       /\ rollback => tables' = file.tables /\ file' = file]_vars

\* A rollback has undone a change that was never committed: the budget of
\* changes is spent, and the populated database is as it was.
C7_Witness ==
    /\ connected /\ last_call = "rollback" /\ raised = NoError
    /\ mutations = MaxMutations
    /\ file = Phytoplankton
    /\ tables = Phytoplankton.tables

\* What create_data is given that makes a new record: a name unused at the
\* level and, below the root, the name of a record of the enclosing level.
Creatable(t, level, n, p) ==
    /\ ~Exists(t, level, n)
    /\ IF level = "phylum" THEN p = None
       ELSE p # None /\ Exists(t, Enclosing(level), p)
NewRow(level, n, s, d, p) ==
    IF level = "phylum" THEN <<n, s, d>> ELSE <<n, s, d, p>>

\* C8: a record created is found by its name with the attributes given (3
\* at the root, 4 below), a commit makes what the connection sees the
\* committed contents, close commits nothing, and a connection opened on an
\* existing file sees the committed contents and nothing else.
C8_CommittedSurvivesReopen ==
    [][/\ \A level \in Taxa : \A n \in Names : \A p \in Parents :
             /\ Creatable(tables, level, n, p)
             /\ create_data(level, n, "x", "", p)
             => /\ data_by_chinese(tables', level, n)
                     = {NewRow(level, n, "x", "", p)}
                /\ Len(NewRow(level, n, "x", "", p))
                     = IF level = "phylum" THEN 3 ELSE 4
       /\ commit /\ raised' = NoError => file'.tables = tables
       /\ close => file' = file
       /\ __init__ /\ file.exists
             => file' = file /\ connected' /\ tables' = file.tables]_vars

\* No two records of a level have the same name.
Unique(t) ==
    \A level \in Taxa : \A r1 \in t[level] : \A r2 \in t[level] :
        chinese(r1) = chinese(r2) => r1 = r2

\* C9: names are unique within each level, in what the connection sees and
\* in what is committed; a create of a name the level has, and a rename of a
\* record to another name the level has, fail and change nothing; a rename to
\* a name the level does not have succeeds, whether or not another level has
\* that name.
C9_NamesUniquePerLevel ==
    [][/\ Unique(tables') /\ Unique(file'.tables)
       /\ \A level \in Taxa : \A n \in Names : \A p \in Parents :
             /\ last_call' = "create_data" /\ Exists(tables, level, n)
             /\ create_data(level, n, "x", "", p)
             => raised' # NoError /\ tables' = tables
       /\ \A level \in Taxa : \A old \in Names : \A new \in NewNames :
             /\ last_call' = "update_chinese"
             /\ Exists(tables, level, old) /\ old # new
             /\ update_chinese(level, old, new)
             => IF Exists(tables, level, new)
                THEN raised' = UniqueFailed /\ tables' = tables
                ELSE raised' = NoError /\ Exists(tables', level, new)]_vars

\* A rename to a name the level already has was refused, in a store where a
\* name is used at two levels.
C9_Witness ==
    /\ connected /\ last_call = "update_chinese" /\ raised = UniqueFailed
    /\ \E l1 \in Taxa : \E l2 \in Taxa \ {l1} : \E n \in Names :
          Exists(tables, l1, n) /\ Exists(tables, l2, n)
    /\ \E level \in Taxa : Cardinality(tables[level]) > 1

\* C10: create_data at the root level raises the invalid-argument error
\* exactly when the parent is neither absent nor empty, inserting nothing, and
\* with an absent or empty parent it inserts the record.
C10_RootCreate ==
    [][\A n \in Names : \A p \in Parents :
          create_data("phylum", n, "x", "", p)
          => IF p \notin {None, ""}
             THEN raised' = ValueError /\ tables' = tables
             ELSE /\ raised' # ValueError
                  /\ ~Exists(tables, "phylum", n)
                        => <<n, "x", "">> \in tables'["phylum"]]_vars

\* C11: retrieve_data_by_child raises nothing; for an existing record below
\* the root it returns the record of the enclosing level that the record names
\* as parent; for a name the level does not have, and for every name at the
\* root level, it returns no record.
C11_ParentByChild ==
    [][\A level \in Taxa : \A n \in NewNames :
          /\ last_call' = "retrieve_data_by_child"
          /\ retrieve_data_by_child(level, n)
          => /\ raised' = NoError
             /\ IF level # "phylum" /\ Exists(tables, level, n)
                THEN \E c \in tables[level] :
                        /\ chinese(c) = n
                        /\ returned' \in tables[Enclosing(level)]
                        /\ chinese(returned') = parent(c)
                ELSE returned' = NoRow]_vars

\* C12: retrieve_data_by_parent raises nothing; below the root it returns
\* exactly the records of the level whose parent is the name given (none when
\* no record has it); at the root it returns every record of the root level,
\* as retrieve_data_by_taxon does, whatever parent is given.
C12_ByParent ==
    [][\A level \in Taxa : \A p \in {None} \cup NewNames :
          /\ last_call' = "retrieve_data_by_parent"
          /\ retrieve_data_by_parent(level, p)
          => /\ raised' = NoError
             /\ IF level = "phylum"
                THEN /\ returned' = tables["phylum"]
                     /\ returned' = data_by_taxon(tables, "phylum")
                ELSE returned' = {r \in tables[level] : parent(r) = p}]_vars

\* The query has returned the two children of one record.
C12_Witness ==
    /\ connected /\ last_call = "retrieve_data_by_parent" /\ raised = NoError
    /\ Cardinality(returned) = 2
    /\ \E p \in Names : \A r \in returned : Len(r) = 4 /\ parent(r) = p

\* C13: a rename of an existing record to a name its level does not have, at
\* any of the six levels, raises nothing; afterwards the new name finds the
\* record with its scientific name, description and parent as they were, and
\* the old name finds nothing.
C13_RenameKeepsAttributes ==
    [][\A level \in Taxa : \A old \in Names : \A new \in NewNames :
          /\ last_call' = "update_chinese"
          /\ Exists(tables, level, old) /\ ~Exists(tables, level, new)
          /\ update_chinese(level, old, new)
          => /\ raised' = NoError
             /\ \E r \in tables[level] :
                   /\ chinese(r) = old
                   /\ data_by_chinese(tables', level, new)
                        = {[r EXCEPT ![1] = new]}
             /\ data_by_chinese(tables', level, old) = {NoRow}]_vars

\* A rename has given a species, the leaf level, a name it did not have.
C13_Witness ==
    /\ connected /\ last_call = "update_chinese" /\ raised = NoError
    /\ \E old \in Names : \E new \in NewNames :
         /\ Exists(file.tables, "species", old)
         /\ ~Exists(file.tables, "species", new)
         /\ ~Exists(tables, "species", old)
         /\ Exists(tables, "species", new)

\* C14: update_scientific raises nothing and changes the scientific name of
\* the record named, nothing else: the record's name, description and parent,
\* the other records of its level and every record of the other levels, its
\* children's parents among them, are as they were.
C14_UpdateScientificOnly ==
    [][\A level \in Taxa : \A n \in Names : \A s \in Scientifics :
          /\ last_call' = "update_scientific"
          /\ update_scientific(level, n, s)
          => /\ raised' = NoError
             /\ tables' = [tables EXCEPT ![level] =
                              {IF chinese(r) = n THEN [r EXCEPT ![2] = s]
                               ELSE r : r \in @}]]_vars

\* An update has given a new scientific name to a record that has children.
C14_Witness ==
    /\ connected /\ last_call = "update_scientific" /\ raised = NoError
    /\ \E level \in NonLeaf : \E r \in tables[level] \ file.tables[level] :
         /\ scientific(r) \in Scientifics
         /\ ChildrenOf(tables, level, chinese(r)) # {}
         /\ ChildrenOf(tables, level, chinese(r))
              = ChildrenOf(file.tables, level, chinese(r))

\* C15: delete_data of a name that no record of the level has raises nothing
\* and leaves all six levels as they were, also when a record of another
\* level has the name.
C15_DeleteMissingIsNoOp ==
    [][\A level \in Taxa : \A n \in Names :
          /\ last_call' = "delete_data"
          /\ ~Exists(tables, level, n)
          /\ delete_data(level, n)
          => raised' = NoError /\ tables' = tables]_vars

\* A delete of a name its level does not have, and other levels do, has left
\* the populated database whole.
C15_Witness ==
    /\ connected /\ last_call = "delete_data" /\ raised = NoError
    /\ mutations = 0
    /\ tables = Phytoplankton.tables
    /\ \E level \in Taxa : \E n \in Names :
         /\ ~Exists(tables, level, n)
         /\ \E other \in Taxa \ {level} : Exists(tables, other, n)

\* The six tables in level order, and then, level by level from phylum to
\* genus, the rename trigger and the delete trigger of the level.
SixTablesTenTriggers ==
    [k \in 1..16 |->
       IF k <= 6
       THEN [type |-> "table", name |-> Levels[k], tbl_name |-> Levels[k]]
       ELSE [type |-> "trigger",
             name |-> IF (k - 7) % 2 = 0 THEN "update_chinese" ELSE "delete",
             tbl_name |-> Levels[(k - 7) \div 2 + 1]]]

\* C16: constructing a Taxonomy raises nothing and gives an open store; where
\* there was no file, the file then has the six tables in level order and the
\* ten triggers (rename and delete for each level but species, in level
\* order), all empty and committed; where there was a file, the file, its
\* tables, triggers and records are as they were.
C16_OpenCreatesSchemaOnce ==
    [][__init__
       => /\ raised' = NoError
          /\ connected'
          /\ IF ~file.exists
             THEN /\ file'.exists
                  /\ file'.master = SixTablesTenTriggers
                  /\ file'.tables = EmptyTables
                  /\ tables' = EmptyTables
                  /\ ~in_transaction'
             ELSE file' = file /\ tables' = file.tables]_vars

\* C17: for an existing record, the ancestry chain without the leaf and with
\* full rows raises nothing and has one row less than the record's level is
\* deep: a record of level i at place i, each the parent of the next, the
\* last the parent of the record itself; for a record of the root level it
\* is the empty list.
C17_ChainWithoutLeaf ==
    [][\A level \in Taxa : \A n \in NewNames :
          /\ last_call' = "retrieve_hierarchical_parents_by_child"
          /\ Exists(tables, level, n)
          /\ retrieve_hierarchical_parents_by_child(level, n, FALSE, FALSE)
          => /\ raised' = NoError
             /\ Len(returned') = Depth(level) - 1
             /\ level = "phylum" => returned' = <<>>
             /\ \A i \in 1..(Depth(level) - 1) :
                   /\ returned'[i] \in tables[Levels[i]]
                   /\ i > 1 => parent(returned'[i]) = chinese(returned'[i - 1])
             /\ level # "phylum"
                   => \E leaf \in tables[level] :
                         /\ chinese(leaf) = n
                         /\ parent(leaf) = chinese(returned'[Depth(level) - 1])]_vars

\* The chain of a species has been returned: five full rows, from its phylum
\* to its genus.
C17_Witness ==
    /\ connected /\ last_call = "retrieve_hierarchical_parents_by_child"
    /\ raised = NoError
    /\ Len(returned) = 5
    /\ returned[1] \in tables["phylum"]
    /\ returned[5] \in tables["genus"]
    /\ \E leaf \in tables["species"] : parent(leaf) = chinese(returned[5])

(***************************************************************************)
(* Renames one after another: a rename in an open store on the populated   *)
(* database as it is, or as one earlier, committed rename left it.         *)
(***************************************************************************)
RenamedStores ==
    {Phytoplankton.tables}
    \cup {run(Phytoplankton.tables,
               commands_update_chinese(t, n[1], n[2])).tables :
             t \in Taxa, n \in Names \X NewNames}

InitRename ==
    /\ package \in Packages
    /\ tables \in RenamedStores
    /\ file = [Phytoplankton EXCEPT !.tables = tables]
    /\ connected = TRUE
    /\ in_transaction = FALSE
    /\ last_call = "__init__"
    /\ raised = NoError
    /\ returned = None
    /\ mutations = 0

NextRename ==
    \E t \in Taxa, n \in NewNames, m \in NewNames : update_chinese(t, n, m)

SpecRename == InitRename /\ [][NextRename]_vars

\* The rows of the chain of a record, the record's own row last.
ChainOf(t, level, name) ==
    hierarchical_parents_by_child(package, t, level, name, TRUE, FALSE)

\* C18: a rename of an existing record of a level above species to a name its
\* level does not have raises nothing, and then for every descendant of the
\* record, at every level below, the ancestry chain raises nothing, has a row
\* for each level down to the descendant, and is the chain from before the
\* rename with the new name for the old at the record's level: as the name
\* of the record, and as the parent of the row below it.  (A chain after two
\* renames so differs twice from the first.)
C18_ChainFollowsRename ==
    [][\A level \in NonLeaf : \A old \in NewNames : \A new \in NewNames :
          /\ last_call' = "update_chinese"
          /\ Exists(tables, level, old) /\ ~Exists(tables, level, new)
          /\ update_chinese(level, old, new)
          => /\ raised' = NoError
             /\ \A d \in (Depth(level) + 1)..6 :
                \A m \in Lineage(tables, level, old, d) :
                   LET before == ChainOf(tables, Levels[d], chinese(m))
                       after == ChainOf(tables', Levels[d], chinese(m))
                   IN  /\ before.raised = NoError /\ after.raised = NoError
                       /\ Len(before.value) = d /\ Len(after.value) = d
                       /\ \A i \in 1..d :
                             after.value[i] =
                                IF i = Depth(level)
                                THEN [before.value[i] EXCEPT ![1] = new]
                                ELSE IF i = Depth(level) + 1
                                THEN [before.value[i] EXCEPT ![4] = new]
                                ELSE before.value[i]]_vars

\* After a rename of a phylum and a rename of the class below it, the chain
\* of a species of theirs has both new names.
C18_Witness ==
    /\ connected /\ last_call = "update_chinese" /\ raised = NoError
    /\ tables # file.tables
    /\ \E leaf \in tables["species"] :
          LET chain == ChainOf(tables, "species", chinese(leaf))
          IN  /\ chain.raised = NoError
              /\ Len(chain.value) = 6
              /\ chinese(chain.value[1]) \notin Names
              /\ chinese(chain.value[2]) \notin Names

\* C19: delete_data takes nothing but the lineage of the record named: every
\* record that is neither that record nor a descendant of it (its siblings
\* and their descendants, its ancestors, records of its name at other
\* levels) is there afterwards with every attribute as it was, and no record
\* is there that was not.
C19_DeleteKeepsTheRest ==
    [][\A level \in Taxa : \A n \in Names :
          /\ last_call' = "delete_data"
          /\ delete_data(level, n)
          => \A j \in 1..6 :
                /\ tables'[Levels[j]] \subseteq tables[Levels[j]]
                /\ (tables[Levels[j]]
                      \ (IF j >= Depth(level)
                         THEN Lineage(tables, level, n, j) ELSE {}))
                   \subseteq tables'[Levels[j]]]_vars

\* A delete has removed a record and left a sibling of it with its children,
\* and a record of the same name at another level.
C19_Witness ==
    /\ connected /\ last_call = "delete_data" /\ raised = NoError
    /\ \E level \in NonLeaf :
       \E gone \in file.tables[level] \ tables[level] :
       \E kept \in tables[level] :
          /\ ChildrenOf(tables, level, chinese(kept)) # {}
          /\ \E other \in Taxa \ {level} :
                Exists(tables, other, chinese(gone))

\* C20: commit and rollback raise nothing in any state of an open store, the
\* commit at the end of the first initialisation included; with no change
\* pending (right after the open, after a commit or a rollback) they leave
\* the six levels and the committed contents as they were.
C20_CommitRollbackPermitted ==
    [][/\ commit \/ rollback
          => /\ raised' = NoError
             /\ ~in_transaction => tables' = tables /\ file' = file
       /\ __init__ /\ ~file.exists => raised' = NoError]_vars

\* C21: a create, delete, rename or update that raises leaves the six levels
\* and the committed contents as they were and ends no transaction: what was
\* changed and not committed before it is still seen, a commit right after it
\* raises nothing and makes that the committed contents, and a rollback right
\* after it raises nothing and brings the committed contents back.
C21_FailedCallChangesNothing ==
    [][/\ last_call' \in Mutators /\ raised' # NoError
          => /\ tables' = tables
             /\ file' = file
             /\ in_transaction => in_transaction'
       /\ last_call \in Mutators /\ raised # NoError /\ in_transaction
          => /\ commit
                => raised' = NoError /\ tables' = tables
                   /\ file'.tables = tables
             /\ rollback
                => raised' = NoError /\ tables' = file.tables
                   /\ file' = file]_vars

\* A rename to a name its level has was refused while an earlier change was
\* waiting to be committed, and that change is still seen.
C21_Witness ==
    /\ connected /\ last_call = "update_chinese" /\ raised = UniqueFailed
    /\ in_transaction
    /\ mutations = MaxMutations
    /\ tables # file.tables

====
